---- MODULE Spec2Model ----
(***************************************************************************)
(* A model of lucca_faces_autoplay: one process run is main() of           *)
(* src/main.rs driving a Player of src/player.rs.  The persisted file      *)
(* "data" outlives a run; the faces service and the file system are the    *)
(* environment and answer nondeterministically.                            *)
(***************************************************************************)
EXTENDS Integers, Sequences, FiniteSets, TLC

\* ------------------------------------------------------------------ bounds
\* the largest nbQuestions the service declares for a game
MaxQuestions == 2

\* ------------------------------------------------------- environment values
\* display names of suggestions
Names == {"a", "b"}
\* the 1024-byte image prefixes the service can return
Images == {1, 2, 3}
\* the identifiers of the four suggestions of a question, in order
IdLists == {<<11, 12, 13, 14>>}
\* identifiers a guess response can declare correct (15 belongs to no suggestion)
ResponseIds == {11, 12, 13, 14, 15}
\* scores a guess response can carry
Scores == {0, 7}

\* HASHER.hash_one: a fixed function of the bytes; distinct prefixes can collide
hash_one(image) == 7000 + (image % 2)

Fingerprints == {hash_one(b) : b \in Images}

\* HashMap<u64, String>: a function on a finite set of keys
EmptyMap == [f \in {} |-> "a"]

\* insert, dropping every other key
insert_alone(m, k, v) == [x \in {k} |-> v]

\* insert, keeping the value of a key that is already present
insert_if_vacant(m, k, v) ==
    [x \in (DOMAIN m) \cup {k} |-> IF x \in DOMAIN m THEN m[x] ELSE v]

\* HashMap::insert: the value of k is replaced, no other key is touched
insert(m, k, v) == [x \in (DOMAIN m) \cup {k} |-> IF x = k THEN v ELSE m[x]]

\* Option::None of HashMap::get
None == "None"

\* HashMap::get
get(m, k) == IF k \in DOMAIN m THEN m[k] ELSE None

Stores == UNION {[D -> Names] : D \in SUBSET Fingerprints}

\* ----------------------------------------------------------- the RON text
\* The text of the file is a sequence of tokens: "{", one token per entry, "}".
Open == [t |-> "{", k |-> 0, v |-> ""]
Close == [t |-> "}", k |-> 0, v |-> ""]
Entry(k, v) == [t |-> "entry", k |-> k, v |-> v]

\* the iteration orders of a HashMap: every enumeration of its keys
Orders(m) ==
    {o \in [1..Cardinality(DOMAIN m) -> DOMAIN m] :
        \A x, y \in 1..Cardinality(DOMAIN m) : x # y => o[x] # o[y]}

\* ron::to_string(&hash_map), the map iterated in order o
to_string(m, o) ==
    <<Open>> \o [x \in 1..Len(o) |-> Entry(o[x], m[o[x]])] \o <<Close>>

\* does ron::from_str accept the text as a map
parses(text) ==
    /\ Len(text) >= 2
    /\ text[1] = Open
    /\ text[Len(text)] = Close
    /\ \A x \in 2..(Len(text) - 1) : text[x].t = "entry"

RECURSIVE collect(_, _)
collect(entries, m) ==
    IF entries = <<>> THEN m
    ELSE collect(Tail(entries), insert(m, Head(entries).k, Head(entries).v))

\* ron::from_str of a text that parses: the entries inserted in order
from_str(text) == collect(SubSeq(text, 2, Len(text) - 1), EmptyMap)

\* the persisted file "data": absent, or present with a text
Absent == [exists |-> FALSE, text |-> <<>>]
Present(text) == [exists |-> TRUE, text |-> text]

\* the proper prefixes of a text: what a failed write_all can leave behind
ProperPrefixes(text) == {SubSeq(text, 1, n) : n \in 0..(Len(text) - 1)}

\* ------------------------------------------------------------- questions
SuggestionLists ==
    {[k \in 1..4 |-> [id |-> ids[k], value |-> names[k]]] :
        ids \in IdLists, names \in [1..4 -> Names]}

Questions == [id : {5}, suggestions : SuggestionLists]

GuessResponses ==
    [score : Scores, is_correct : BOOLEAN, correct_suggestion_id : ResponseIds]

\* the bodies the service sends with a status that is not a success and that
\* parse all the same
ErrorQuestions ==
    {q \in Questions : \A k \in 1..4 : q.suggestions[k].value = "a"}
ErrorImages == {1}
ErrorResponses ==
    {r \in GuessResponses : r.score = 0 /\ ~r.is_correct /\ r.correct_suggestion_id \in {12, 15}}

\* the answers to a request that parse: a status and a body
Answers(bodies, error_bodies) ==
    [ok : {TRUE}, body : bodies] \cup [ok : {FALSE}, body : error_bodies]

NoQuestion == [id |-> 0, suggestions |-> <<>>]
NoResponse == [score |-> 0, is_correct |-> FALSE, correct_suggestion_id |-> 0]
NoGame == [nb_questions |-> 0]
NoForm == [questionId |-> 0, suggestionId |-> 0]
NoSave == [exists |-> FALSE, map |-> EmptyMap]
NoBody == "(none)"

\* the login page: without the input element, with one that has no value
\* attribute, or with the token
LoginPages == {"no element", "no value", "token"}
\* the body of the response to the login form
LoginAnswers == {"home", "login form"}

\* iter().filter(..).next(): the least of the indices that pass the filter,
\* 0 for None
first_index(hits) ==
    IF hits = {} THEN 0 ELSE CHOOSE k \in hits : \A j \in hits : k <= j

\* select, taking the last suggestion of that name instead of the first
select_last_match(m, h, suggestions) ==
    IF h \in DOMAIN m
    THEN LET hits == {k \in DOMAIN suggestions : suggestions[k].value = m[h]}
         IN IF hits = {} THEN 0 ELSE CHOOSE k \in hits : \A j \in hits : k >= j
    ELSE 1

\* select, defaulting to the last suggestion instead of the first
select_default_last(m, h, suggestions) ==
    IF h \in DOMAIN m
    THEN first_index({k \in DOMAIN suggestions : suggestions[k].value = m[h]})
    ELSE Len(suggestions)

\* select, falling back to the first suggestion when the stored name is not offered
select_fallback(m, h, suggestions) ==
    IF h \in DOMAIN m /\ \E k \in DOMAIN suggestions : suggestions[k].value = m[h]
    THEN first_index({k \in DOMAIN suggestions : suggestions[k].value = m[h]})
    ELSE 1

\* Player::guess, the match on hash_map.get(&image_hash): the index of
\* `suggestion` in question.suggestions, 0 when unwrap() panics
select(m, h, suggestions) ==
    IF get(m, h) # None
    THEN first_index({k \in DOMAIN suggestions : suggestions[k].value = get(m, h)})
    ELSE 1

\* correct_index, taking the first suggestion after an incorrect guess
correct_index_first(r, guessed, suggestions) ==
    IF r.is_correct THEN guessed ELSE 1

\* correct_index, falling back to the guess when no suggestion has the
\* identifier of the response
correct_index_fallback(r, guessed, suggestions) ==
    IF r.is_correct \/ ~\E k \in DOMAIN suggestions :
                           suggestions[k].id = r.correct_suggestion_id
    THEN guessed
    ELSE first_index({k \in DOMAIN suggestions :
                        suggestions[k].id = r.correct_suggestion_id})

\* correct_index, taking the guess for the truth whatever the response says
correct_index_guessed(r, guessed, suggestions) == guessed

\* Player::guess, the match on response.is_correct: the index of
\* `correct_suggestion`, 0 when unwrap() panics
correct_index(r, guessed, suggestions) ==
    IF r.is_correct
    THEN guessed
    ELSE first_index({k \in DOMAIN suggestions :
                        suggestions[k].id = r.correct_suggestion_id})

VARIABLES
    pc,           \* position of main()
    file,         \* the persisted file "data"
    hash_map,     \* Player.hash_map
    game,         \* the Game returned by start_game
    i,            \* loop variable of main
    scores,       \* vec of scores of main
    question,     \* Player::guess: the parsed Question
    image_hash,   \* Player::guess: image_hash
    chosen,       \* Player::guess: index of `suggestion` in question.suggestions
    response,     \* Player::guess: the parsed GuessResponse
    guess_form,   \* Player::respond: the body of the guess that was sent
    status,       \* whether the latest HTTP response had a success status
    login_body,   \* Player::login: the body of the latest response of the login page
    fresh,        \* history: the answers of this run whose fingerprint was not stored
    log,          \* the file accesses and HTTP requests of this run, in order
    file0,        \* history: the file as this run found it
    saved         \* history: the table of the latest save that completed

vars == <<pc, file, hash_map, game, i, scores, question, image_hash,
          chosen, response, guess_form, status, login_body, fresh, log,
          file0, saved>>

locals == <<question, image_hash, chosen, response, guess_form>>

history == <<file0, saved>>

Ev(kind, n) == <<kind, n>>

\* every text save_hash_map can write
Texts == UNION {{to_string(m, o) : o \in Orders(m)} : m \in Stores}

\* the files a first run can find: none, an empty one, or a saved table
InitFiles == {Absent, Present(<<>>)} \cup {Present(t) : t \in Texts}

Init ==
    /\ pc = "new"
    /\ file \in InitFiles
    /\ hash_map = EmptyMap
    /\ game = NoGame
    /\ i = 0
    /\ scores = <<>>
    /\ question = NoQuestion
    /\ image_hash = 0
    /\ chosen = 0
    /\ response = NoResponse
    /\ guess_form = NoForm
    /\ status = TRUE
    /\ login_body = NoBody
    /\ fresh = 0
    /\ log = <<>>
    /\ file0 = file
    /\ saved = NoSave

\* an Err or a panic reaches unwrap() in main: the process ends
Abort(events) ==
    /\ pc' = "aborted"
    /\ log' = log \o events

\* New, taking a file that does not parse for an empty table
NewLenient ==
    /\ pc = "new"
    /\ UNCHANGED <<file, game, i, scores, locals, status, login_body, fresh, file0, saved>>
    /\ \/ /\ Abort(<<>>)
          /\ UNCHANGED hash_map
       \/ /\ file.exists
          /\ Abort(<<Ev("read data", 0)>>)
          /\ UNCHANGED hash_map
       \/ /\ hash_map' = IF file.exists /\ parses(file.text)
                          THEN from_str(file.text) ELSE EmptyMap
          /\ pc' = "login_get"
          /\ log' = Append(log, Ev("read data", 0))

\* main.rs:19, Player::new
New ==
    /\ pc = "new"
    /\ UNCHANGED <<file, game, i, scores, locals, status, login_body, fresh, file0, saved>>
    /\ \/ \* Client::builder().build() or Url::parse fails
          /\ Abort(<<>>)
          /\ UNCHANGED hash_map
       \/ \* path.exists() is false
          /\ ~file.exists
          /\ hash_map' = EmptyMap
          /\ pc' = "login_get"
          /\ log' = Append(log, Ev("read data", 0))
       \/ \* read_to_string fails
          /\ file.exists
          /\ Abort(<<Ev("read data", 0)>>)
          /\ UNCHANGED hash_map
       \/ \* ron::from_str fails
          /\ file.exists
          /\ ~parses(file.text)
          /\ Abort(<<Ev("read data", 0)>>)
          /\ UNCHANGED hash_map
       \/ /\ file.exists
          /\ parses(file.text)
          /\ hash_map' = from_str(file.text)
          /\ pc' = "login_get"
          /\ log' = Append(log, Ev("read data", 0))

\* LoginGet, taking an input element without a value attribute for an empty token
LoginGetEmptyToken ==
    /\ pc = "login_get"
    /\ UNCHANGED <<file, hash_map, game, i, scores, locals, fresh, history>>
    /\ \/ /\ Abort(<<Ev("GET login", 0)>>)
          /\ UNCHANGED <<status, login_body>>
       \/ /\ status' = FALSE
          /\ login_body' \in LoginPages
          /\ Abort(<<Ev("GET login", 0)>>)
       \/ /\ status' = TRUE
          /\ login_body' = "no element"
          /\ Abort(<<Ev("GET login", 0)>>)
       \/ /\ status' = TRUE
          /\ login_body' \in {"no value", "token"}
          /\ pc' = "login_post"
          /\ log' = Append(log, Ev("GET login", 1))

\* Player::login, lines 115-134: the GET of the login page and the search
\* for the token; the event carries 1 when the token was found
LoginGet ==
    /\ pc = "login_get"
    /\ UNCHANGED <<file, hash_map, game, i, scores, locals, fresh, history>>
    /\ \/ \* send() fails
          /\ Abort(<<Ev("GET login", 0)>>)
          /\ UNCHANGED <<status, login_body>>
       \/ \* the status is not a success: the page is not looked at
          /\ status' = FALSE
          /\ login_body' \in LoginPages
          /\ Abort(<<Ev("GET login", 0)>>)
       \/ \* select(..).next() is None: no input element
          /\ status' = TRUE
          /\ login_body' = "no element"
          /\ Abort(<<Ev("GET login", 0)>>)
       \/ \* attr("value") is None
          /\ status' = TRUE
          /\ login_body' = "no value"
          /\ Abort(<<Ev("GET login", 0)>>)
       \/ /\ status' = TRUE
          /\ login_body' = "token"
          /\ pc' = "login_post"
          /\ log' = Append(log, Ev("GET login", 1))

\* LoginPost, succeeding only when the answer is the home page
LoginPostReadsBody ==
    /\ pc = "login_post"
    /\ UNCHANGED <<file, hash_map, game, i, scores, locals, fresh, history>>
    /\ \/ /\ Abort(<<Ev("POST login", 0)>>)
          /\ UNCHANGED <<status, login_body>>
       \/ \E ok \in BOOLEAN, body \in LoginAnswers :
            /\ status' = ok
            /\ login_body' = body
            /\ IF ok /\ body = "home"
               THEN /\ pc' = "start_game"
                    /\ log' = Append(log, Ev("POST login", 1))
               ELSE Abort(<<Ev("POST login", 0)>>)

\* LoginPost, going on whatever the status
LoginPostAnyStatus ==
    /\ pc = "login_post"
    /\ UNCHANGED <<file, hash_map, game, i, scores, locals, fresh, history>>
    /\ \/ /\ Abort(<<Ev("POST login", 0)>>)
          /\ UNCHANGED <<status, login_body>>
       \/ \E ok \in BOOLEAN, body \in LoginAnswers :
            /\ status' = ok
            /\ login_body' = body
            /\ pc' = "start_game"
            /\ log' = Append(log, Ev("POST login", IF ok THEN 1 ELSE 0))

\* Player::login, lines 136-148: the POST of the login form; the event
\* carries 1 when login returns Ok
LoginPost ==
    /\ pc = "login_post"
    /\ UNCHANGED <<file, hash_map, game, i, scores, locals, fresh, history>>
    /\ \/ \* send() fails
          /\ Abort(<<Ev("POST login", 0)>>)
          /\ UNCHANGED <<status, login_body>>
       \/ \* the status decides, the body is not read
          \E ok \in BOOLEAN, body \in LoginAnswers :
            /\ status' = ok
            /\ login_body' = body
            /\ IF ok
               THEN /\ pc' = "start_game"
                    /\ log' = Append(log, Ev("POST login", 1))
               ELSE Abort(<<Ev("POST login", 0)>>)

\* main.rs:22-23, Player::start_game
StartGame ==
    /\ pc = "start_game"
    /\ login_body' = NoBody
    /\ UNCHANGED <<file, hash_map, locals, fresh, history>>
    /\ \/ \* send() fails
          /\ Abort(<<Ev("POST games", 0)>>)
          /\ UNCHANGED <<status, game, i, scores>>
       \/ \* the status is not a success
          /\ status' = FALSE
          /\ Abort(<<Ev("POST games", 0)>>)
          /\ UNCHANGED <<game, i, scores>>
       \/ \* response.json() fails
          /\ status' = TRUE
          /\ Abort(<<Ev("POST games", 0)>>)
          /\ UNCHANGED <<game, i, scores>>
       \/ \E n \in 0..MaxQuestions :
            /\ status' = TRUE
            /\ game' = [nb_questions |-> n]
            /\ i' = 0
            /\ scores' = <<>>
            /\ pc' = "loop"
            /\ log' = Append(log, Ev("POST games", 0))

\* Loop, leaving the loop one question early
LoopOffByOne ==
    /\ pc = "loop"
    /\ pc' = IF i + 1 < game.nb_questions THEN "next" ELSE "save"
    /\ question' = NoQuestion
    /\ image_hash' = 0
    /\ chosen' = 0
    /\ response' = NoResponse
    /\ guess_form' = NoForm
    /\ status' = TRUE
    /\ UNCHANGED <<file, hash_map, game, i, scores, login_body, fresh, log, history>>

\* Loop, asking one question more than the game has
LoopOneMore ==
    /\ pc = "loop"
    /\ pc' = IF i <= game.nb_questions THEN "next" ELSE "save"
    /\ question' = NoQuestion
    /\ image_hash' = 0
    /\ chosen' = 0
    /\ response' = NoResponse
    /\ guess_form' = NoForm
    /\ status' = TRUE
    /\ UNCHANGED <<file, hash_map, game, i, scores, login_body, fresh, log, history>>

\* Loop, leaving the loop after a guess that was reported incorrect
LoopUntilWrong ==
    /\ pc = "loop"
    /\ pc' = IF i < game.nb_questions /\ (response = NoResponse \/ response.is_correct)
             THEN "next" ELSE "save"
    /\ question' = NoQuestion
    /\ image_hash' = 0
    /\ chosen' = 0
    /\ response' = NoResponse
    /\ guess_form' = NoForm
    /\ status' = TRUE
    /\ UNCHANGED <<file, hash_map, game, i, scores, login_body, fresh, log, history>>

\* main.rs:24, the head of the for loop; the locals of the previous
\* call of guess are gone
Loop ==
    /\ pc = "loop"
    /\ pc' = IF i < game.nb_questions THEN "next" ELSE "save"
    /\ question' = NoQuestion
    /\ image_hash' = 0
    /\ chosen' = 0
    /\ response' = NoResponse
    /\ guess_form' = NoForm
    /\ status' = TRUE
    /\ UNCHANGED <<file, hash_map, game, i, scores, login_body, fresh, log, history>>

\* Player::guess, lines 185-193: the next question
GuessNext ==
    /\ pc = "next"
    /\ UNCHANGED <<file, hash_map, game, i, scores, image_hash, chosen,
                   response, guess_form, login_body, fresh, history>>
    /\ \/ \* send() fails
          /\ Abort(<<Ev("POST next", 0)>>)
          /\ UNCHANGED <<status, question>>
       \/ \* response.json() fails, whatever the status
          /\ status' \in BOOLEAN
          /\ Abort(<<Ev("POST next", 0)>>)
          /\ UNCHANGED question
       \/ \* the body parses, whatever the status
          \E answer \in Answers(Questions, ErrorQuestions) :
            /\ status' = answer.ok
            /\ question' = answer.body
            /\ pc' = "image"
            /\ log' = Append(log, Ev("POST next", 0))

\* Player::guess, lines 195-212: the image prefix, its hash, the lookup
GuessImage ==
    /\ pc = "image"
    /\ UNCHANGED <<file, hash_map, game, i, scores, question, response,
                   guess_form, login_body, fresh, history>>
    /\ \/ \* send() or bytes() fails
          /\ Abort(<<Ev("GET image", 0)>>)
          /\ UNCHANGED <<status, image_hash, chosen>>
       \/ \* a body arrives, whatever the status
          \E answer \in Answers(Images, ErrorImages) :
            /\ status' = answer.ok
            /\ image_hash' = hash_one(answer.body)
            /\ chosen' = select(hash_map, image_hash', question.suggestions)
            /\ IF chosen' = 0
               THEN Abort(<<Ev("GET image", 0)>>)
               ELSE /\ pc' = "respond"
                    /\ log' = Append(log, Ev("GET image", 0))

\* GuessRespond, putting the guessed name into the store before the guess is
\* sent
GuessRespondEager ==
    /\ pc = "respond"
    /\ guess_form' = [questionId |-> question.id,
                      suggestionId |-> question.suggestions[chosen].id]
    /\ UNCHANGED <<file, game, question, image_hash, chosen, login_body, history>>
    /\ \/ /\ Abort(<<Ev("POST guess", 0)>>)
          /\ hash_map' = insert(hash_map, image_hash, question.suggestions[chosen].value)
          /\ UNCHANGED <<status, response, i, scores, fresh>>
       \/ /\ status' \in BOOLEAN
          /\ Abort(<<Ev("POST guess", 0)>>)
          /\ hash_map' = insert(hash_map, image_hash, question.suggestions[chosen].value)
          /\ UNCHANGED <<response, i, scores, fresh>>
       \/ \E answer \in Answers(GuessResponses, ErrorResponses) :
            LET r == answer.body
                c == correct_index(r, chosen, question.suggestions) IN
            /\ status' = answer.ok
            /\ response' = r
            /\ IF c = 0
               THEN /\ Abort(<<Ev("POST guess", 0)>>)
                    /\ hash_map' = insert(hash_map, image_hash,
                                          question.suggestions[chosen].value)
                    /\ UNCHANGED <<i, scores, fresh>>
               ELSE /\ hash_map' = insert(hash_map, image_hash, question.suggestions[c].value)
                    /\ fresh' = IF get(hash_map, image_hash) = None THEN fresh + 1 ELSE fresh
                    /\ scores' = Append(scores, r.score)
                    /\ i' = i + 1
                    /\ pc' = "loop"
                    /\ log' = log \o <<Ev("POST guess", 0), Ev("feedback", r.score)>>

\* Player::guess, lines 214-229, Player::respond, main.rs:26-27
GuessRespond ==
    /\ pc = "respond"
    /\ guess_form' = [questionId |-> question.id,
                      suggestionId |-> question.suggestions[chosen].id]
    /\ UNCHANGED <<file, game, question, image_hash, chosen, login_body, history>>
    /\ \/ \* send() fails
          /\ Abort(<<Ev("POST guess", 0)>>)
          /\ UNCHANGED <<status, response, hash_map, i, scores, fresh>>
       \/ \* response.json() fails, whatever the status
          /\ status' \in BOOLEAN
          /\ Abort(<<Ev("POST guess", 0)>>)
          /\ UNCHANGED <<response, hash_map, i, scores, fresh>>
       \/ \* the body parses, whatever the status
          \E answer \in Answers(GuessResponses, ErrorResponses) :
            LET r == answer.body
                c == correct_index(r, chosen, question.suggestions) IN
            /\ status' = answer.ok
            /\ response' = r
            /\ IF c = 0
               THEN /\ Abort(<<Ev("POST guess", 0)>>)
                    /\ UNCHANGED <<hash_map, i, scores, fresh>>
               ELSE /\ hash_map' = insert(hash_map, image_hash, question.suggestions[c].value)
                    /\ fresh' = IF get(hash_map, image_hash) = None THEN fresh + 1 ELSE fresh
                    /\ scores' = Append(scores, r.score)
                    /\ i' = i + 1
                    /\ pc' = "loop"
                    /\ log' = log \o <<Ev("POST guess", 0), Ev("feedback", r.score)>>

\* SaveCreate, opening the file without truncating it
SaveCreateKeep ==
    /\ pc = "save"
    /\ UNCHANGED <<hash_map, game, i, scores, locals, status, login_body, fresh, file0>>
    /\ \/ /\ Abort(<<Ev("create data", 0)>>)
          /\ UNCHANGED <<file, saved>>
       \/ /\ file' = Present(file.text)
          /\ saved' = NoSave
          /\ pc' = "write"
          /\ log' = Append(log, Ev("create data", 0))

\* Player::save_hash_map, line 108: File::create truncates the file
SaveCreate ==
    /\ pc = "save"
    /\ UNCHANGED <<hash_map, game, i, scores, locals, status, login_body, fresh, file0>>
    /\ \/ \* File::create fails
          /\ Abort(<<Ev("create data", 0)>>)
          /\ UNCHANGED <<file, saved>>
       \/ /\ file' = Present(<<>>)
          /\ saved' = NoSave
          /\ pc' = "write"
          /\ log' = Append(log, Ev("create data", 0))

\* Player::save_hash_map, line 110: to_string and write_all
SaveWrite ==
    /\ pc = "write"
    /\ UNCHANGED <<hash_map, game, i, scores, locals, status, login_body, fresh, file0>>
    /\ \E o \in Orders(hash_map) :
         \/ \* write_all fails after writing a part
            /\ \E p \in ProperPrefixes(to_string(hash_map, o)) :
                 file' = Present(file.text \o p)
            /\ saved' = NoSave
            /\ Abort(<<Ev("write data", 0)>>)
         \/ /\ file' = Present(file.text \o to_string(hash_map, o))
            /\ saved' = [exists |-> TRUE, map |-> hash_map]
            /\ pc' = "done"
            /\ log' = Append(log, Ev("write data", 0))

\* the process is killed from outside: its memory is gone, the file stays
\* (a kill at the head of the loop leaves what a kill one step later leaves)
Kill ==
    /\ pc \notin {"loop", "done", "aborted", "killed"}
    /\ pc' = "killed"
    /\ hash_map' = EmptyMap
    /\ game' = NoGame
    /\ i' = 0
    /\ scores' = <<>>
    /\ question' = NoQuestion
    /\ image_hash' = 0
    /\ chosen' = 0
    /\ response' = NoResponse
    /\ guess_form' = NoForm
    /\ status' = TRUE
    /\ login_body' = NoBody
    /\ fresh' = 0
    /\ UNCHANGED <<file, log, history>>

\* the program is started again on the same file
Restart ==
    /\ pc \in {"done", "aborted", "killed"}
    /\ pc' = "new"
    /\ hash_map' = EmptyMap
    /\ game' = NoGame
    /\ i' = 0
    /\ scores' = <<>>
    /\ question' = NoQuestion
    /\ image_hash' = 0
    /\ chosen' = 0
    /\ response' = NoResponse
    /\ guess_form' = NoForm
    /\ status' = TRUE
    /\ login_body' = NoBody
    /\ fresh' = 0
    /\ log' = <<>>
    /\ file0' = file
    /\ UNCHANGED <<file, saved>>

Next ==
    \/ New
    \/ LoginGet
    \/ LoginPost
    \/ StartGame
    \/ Loop
    \/ GuessNext
    \/ GuessImage
    \/ GuessRespond
    \/ SaveCreate
    \/ SaveWrite
    \/ Kill
    \/ Restart

Spec == Init /\ [][Next]_vars

\* ------------------------------------------------------------ properties
\* the number of events of a kind in the log of this run
Count(kind) == Cardinality({k \in 1..Len(log) : log[k][1] = kind})

\* the scores of the guess responses of this run, in the order they arrived
RECURSIVE scores_of(_)
scores_of(events) ==
    IF events = <<>> THEN <<>>
    ELSE IF Head(events)[1] = "feedback"
         THEN <<Head(events)[2]>> \o scores_of(Tail(events))
         ELSE scores_of(Tail(events))

\* the truly correct suggestion of a question: the one the response names
truth_index(r, suggestions) ==
    first_index({k \in DOMAIN suggestions : suggestions[k].id = r.correct_suggestion_id})

\* a call of guess has just returned
Returned == pc = "loop" /\ response # NoResponse

\* C1, state part: guess has been invoked i times at the head of the loop and
\* nb_questions times when the loop is left, each invocation starts after the
\* previous one has returned, and scores holds the score of every response, in
\* order.
C1_Counts ==
    /\ pc # "killed" => scores = scores_of(log)
    /\ Len(scores) = i
    /\ pc \in {"loop", "next"} => Count("POST next") = i /\ i <= game.nb_questions
    /\ pc = "next" => i < game.nb_questions
    /\ pc \in {"image", "respond"} => Count("POST next") = i + 1 /\ i < game.nb_questions
    /\ pc \in {"save", "write", "done"} => Count("POST next") = game.nb_questions /\ i = game.nb_questions
    /\ \A k, l \in 1..Len(log) :
         (k < l /\ log[k][1] = "POST next" /\ log[l][1] = "POST next")
             => \E m \in (k + 1)..(l - 1) : log[m][1] = "feedback"

\* C1: the play loop invokes guess exactly nb_questions times, one after
\* another, records one score per invocation in order, and goes on to the next
\* question after any response, correct or not, while questions remain.
C1_PlayLoop ==
    /\ []C1_Counts
    /\ [][(pc = "loop" /\ i < game.nb_questions) => pc' \in {"next", "killed"}]_vars

C1_Witness ==
    /\ pc = "loop"
    /\ game.nb_questions = 2
    /\ i = 2
    /\ scores[1] # scores[2]
    /\ ~response.is_correct

\* is the response one an honest service gives to the guess that was sent
consistent(r, form, suggestions) ==
    /\ \E k \in 1..Len(suggestions) : suggestions[k].id = r.correct_suggestion_id
    /\ r.is_correct <=> (form.suggestionId = r.correct_suggestion_id)

\* C2 as claimed, for the answers of earlier sessions: a question whose
\* fingerprint and truly correct name are an entry of the table this run loaded
\* (every entry of a saved table is an answered question) is guessed correctly,
\* the service being honest.
C2_Original ==
    [][(/\ pc = "respond"
        /\ pc' = "loop"
        /\ consistent(response', guess_form', question.suggestions)
        /\ file0.exists
        /\ parses(file0.text)
        /\ get(from_str(file0.text), image_hash) =
             question.suggestions[truth_index(response', question.suggestions)].value)
       => chosen = truth_index(response', question.suggestions)]_vars

\* C2, amended: when the store holds for the fingerprint of a question the name
\* of its truly correct suggestion, and that suggestion is the first of the
\* four with that name, the suggestion submitted is the truly correct one.
C2_Recall ==
    [][(/\ pc = "respond"
        /\ pc' = "loop"
        /\ truth_index(response', question.suggestions) # 0
        /\ image_hash \in DOMAIN hash_map
        /\ LET t == truth_index(response', question.suggestions)
           IN /\ question.suggestions[t].value = hash_map[image_hash]
              /\ \A j \in 1..(t - 1) :
                    question.suggestions[j].value # question.suggestions[t].value)
       => guess_form'.suggestionId = response'.correct_suggestion_id]_vars

C2_Witness ==
    /\ Returned
    /\ ~file0.exists
    /\ i = 2
    /\ chosen = 3
    /\ response.is_correct
    /\ response.correct_suggestion_id = question.suggestions[3].id
    /\ guess_form.suggestionId = question.suggestions[3].id

\* C3: when the fingerprint is not in the store, the guess that is sent
\* carries the identifier of the first of the four suggestions.
C3_ColdStart ==
    [][(/\ pc = "respond"
        /\ guess_form' # NoForm
        /\ image_hash \notin DOMAIN hash_map)
       => guess_form'.suggestionId = question.suggestions[1].id]_vars

C3_Witness ==
    /\ Returned
    /\ ~file0.exists
    /\ i = 1
    /\ guess_form.suggestionId = question.suggestions[1].id
    /\ question.suggestions[1].value # question.suggestions[2].value

\* C4: when the fingerprint is in the store, the guess that is sent carries
\* the identifier of a suggestion whose name is the stored one; when no
\* suggestion has that name the run ends there, with the store as it was and
\* no guess sent, and an ended run issues nothing more.
C4_StoredAnswer ==
    /\ [][(/\ pc = "respond"
           /\ guess_form' # NoForm
           /\ image_hash \in DOMAIN hash_map)
          => \E k \in 1..4 :
                /\ question.suggestions[k].id = guess_form'.suggestionId
                /\ question.suggestions[k].value = hash_map[image_hash]]_vars
    /\ [][(/\ pc = "image"
           /\ image_hash' \in DOMAIN hash_map
           /\ \A k \in 1..4 : question.suggestions[k].value # hash_map[image_hash'])
          => /\ pc' = "aborted"
             /\ hash_map' = hash_map
             /\ guess_form' = NoForm
             /\ Count("POST guess")' = i]_vars
    /\ [][pc = "aborted" => (pc' = "new" /\ log' = <<>>)]_vars

C4_Witness ==
    /\ pc = "aborted"
    /\ image_hash \in DOMAIN hash_map
    /\ chosen = 0
    /\ \A k \in 1..4 : question.suggestions[k].value # hash_map[image_hash]
    /\ guess_form = NoForm

\* the name of the suggestion of the question that has an identifier
name_of(id) ==
    IF \E k \in 1..4 : question.suggestions[k].id = id
    THEN question.suggestions[CHOOSE k \in 1..4 : question.suggestions[k].id = id].value
    ELSE "(none)"

\* C5: when guess has returned, the store maps the fingerprint of the question
\* to the name of the guessed suggestion if the response says correct, and
\* otherwise to the name of the suggestion the response declares correct.
C5_SelfCorrection ==
    Returned =>
        /\ image_hash \in DOMAIN hash_map
        /\ hash_map[image_hash] =
              IF response.is_correct
              THEN name_of(guess_form.suggestionId)
              ELSE name_of(response.correct_suggestion_id)

C5_Witness ==
    /\ Returned
    /\ ~response.is_correct
    /\ chosen = 2
    /\ hash_map[image_hash] # question.suggestions[chosen].value
    /\ hash_map[image_hash] = name_of(response.correct_suggestion_id)


\* C6: the insert of guess makes get return the inserted name for the
\* fingerprint, also when the fingerprint already had a name, and changes the
\* result of get for no other fingerprint.
C6_LastWriteWins ==
    [][(pc = "respond" /\ pc' = "loop")
       => LET n == question.suggestions[
                       correct_index(response', chosen, question.suggestions)].value
          IN /\ get(hash_map', image_hash) = n
             /\ \A f \in Fingerprints \ {image_hash} :
                   get(hash_map', f) = get(hash_map, f)]_vars

C6_Witness ==
    /\ Returned
    /\ Cardinality(DOMAIN hash_map) = 2
    /\ chosen = 3
    /\ get(hash_map, image_hash) # question.suggestions[3].value

\* C7: when a save has completed, the file parses to the table that was
\* saved, whatever the file held before, and a run that then loads it starts
\* with that table.
C7_RoundTrip ==
    /\ pc = "done" =>
          /\ file.exists
          /\ parses(file.text)
          /\ from_str(file.text) = hash_map
          /\ saved = [exists |-> TRUE, map |-> hash_map]
    /\ (pc = "login_get" /\ saved.exists) => hash_map = saved.map

C7_Witness ==
    /\ pc = "login_get"
    /\ saved.exists
    /\ Cardinality(DOMAIN hash_map) = 2
    /\ hash_map = saved.map
    /\ file.text[2].k > file.text[3].k

\* C8 as claimed: in a run that found a complete table, the file always holds
\* that table or the complete table of the store being saved.
C8_AtomicSave ==
    (file0.exists /\ parses(file0.text)) =>
        \/ file = file0
        \/ /\ file.exists
           /\ parses(file.text)
           /\ from_str(file.text) = hash_map

\* the kinds of the HTTP requests
HttpKinds == {"GET login", "POST login", "POST games", "POST next", "GET image", "POST guess"}

\* C9: a run that finds a file that does not parse ends in Player::new, having
\* issued no request and leaving the file as it was; a run that finds no file
\* and looks for it goes on to the login with an empty store.
C9_Load ==
    /\ []((file0.exists /\ ~parses(file0.text))
            => /\ pc \in {"new", "aborted", "killed"}
               /\ \A k \in 1..Len(log) : log[k][1] = "read data"
               /\ hash_map = EmptyMap
               /\ file = file0)
    /\ [][(pc = "new" /\ ~file.exists /\ log' # log)
            => (pc' = "login_get" /\ hash_map' = EmptyMap /\ file' = file)]_vars

C9_Witness ==
    /\ pc = "aborted"
    /\ file0.exists
    /\ Len(file0.text) = 2
    /\ file0.text[2].t = "entry"
    /\ log = <<Ev("read data", 0)>>
    /\ file = file0

\* what C10 says of the file apart from the number of reads: the read comes
\* first, the file is created and written at most once, after every question
\* of the game has been answered and after every request, and a run that has
\* not begun to save has left the file as it found it.
C10_Frame ==
    /\ Count("read data") <= 1
    /\ log # <<>> => log[1][1] = "read data"
    /\ Count("create data") <= 1
    /\ Count("write data") <= Count("create data")
    /\ \A k \in 1..Len(log) :
         log[k][1] \in {"create data", "write data"} =>
            /\ pc # "killed" =>
                  (i = game.nb_questions /\ Count("feedback") = game.nb_questions)
            /\ Count("POST next") = Count("feedback")
            /\ Count("POST games") = 1
            /\ \A l \in 1..Len(log) : log[l][1] \in HttpKinds \cup {"feedback"} => l < k
    /\ Count("create data") = 0 => file = file0

\* C10 as claimed: every run that has ended has read the file exactly once.
C10_Original ==
    /\ C10_Frame
    /\ pc \in {"done", "aborted"} => Count("read data") = 1

\* C10, amended: the file is read at most once in a run, and exactly once in
\* every run that has got as far as the login.
C10_FileAccess ==
    /\ C10_Frame
    /\ (pc \notin {"new", "aborted", "killed"} \/ log # <<>>) => Count("read data") = 1

C10_Witness ==
    /\ pc = "aborted"
    /\ i = 1
    /\ game.nb_questions = 2
    /\ Count("POST next") = 2
    /\ file0.exists
    /\ hash_map # from_str(file0.text)
    /\ file = file0

\* the login page that came back has no token to take
TokenMissing == login_body \in {"no element", "no value"}

\* C11: when the login page has no __RequestVerificationToken input element,
\* or the element has no value attribute, login fails straight after the GET:
\* the run is aborted, and it has issued no POST to the login endpoint and
\* never will; a POST is only issued after a page that yielded a token.
C11_TokenNotFound ==
    /\ [](TokenMissing =>
            /\ pc = "aborted"
            /\ Count("POST login") = 0
            /\ log[Len(log)] = Ev("GET login", 0))
    /\ [][pc = "aborted" => (pc' = "new" /\ Count("POST login")' = 0)]_vars
    /\ [][Count("POST login")' > Count("POST login") =>
            (pc = "login_post" /\ login_body = "token" /\ status)]_vars

C11_Witness ==
    /\ pc = "aborted"
    /\ status
    /\ login_body = "no element"
    /\ Count("GET login") = 1
    /\ Count("POST login") = 0

\* C12: after a login page that yielded a token, login returns Ok exactly when
\* the response to the POST has a success status, whatever its body; with any
\* other status login fails and the run is aborted.
C12_LoginStatus ==
    /\ [](pc = "start_game" => (status /\ login_body \in LoginAnswers))
    /\ [][(pc = "login_post" /\ login_body' \in LoginAnswers) =>
            /\ login_body = "token"
            /\ (pc' = "start_game") <=> status'
            /\ ~status' => pc' = "aborted"
            /\ log' = Append(log, Ev("POST login", IF status' THEN 1 ELSE 0))]_vars

C12_Witness ==
    /\ pc = "start_game"
    /\ status
    /\ login_body = "login form"
    /\ log[Len(log)] = Ev("POST login", 1)

\* the requests of the game protocol
GameKinds == {"POST games", "POST next", "GET image", "POST guess"}

\* C13: once the game protocol has begun, a response with a status that is
\* not a success ends the run at once, and the step that received it changes
\* neither the store nor the scores.
C13_StatusFatal ==
    /\ []((~status /\ Count("POST games") > 0) => pc = "aborted")
    /\ [][(~status' /\ Count("POST games")' > 0) =>
            (hash_map' = hash_map /\ scores' = scores)]_vars

\* C14: every request of the game protocol in a run comes after a login that
\* returned Ok in that run, and a GET or POST of the login that fails is the
\* last request of its run.
C14_LoginFirst ==
    /\ [](\A k \in 1..Len(log) :
            /\ log[k][1] \in GameKinds =>
                 \E j \in 1..(k - 1) : log[j] = Ev("POST login", 1)
            /\ log[k] \in {Ev("GET login", 0), Ev("POST login", 0)} =>
                 (pc = "aborted" /\ k = Len(log)))
    /\ [][pc = "aborted" =>
            (pc' = "new" /\ \A kind \in GameKinds : Count(kind)' = 0)]_vars

C14_Witness ==
    /\ pc = "aborted"
    /\ ~status
    /\ login_body \in LoginAnswers
    /\ log[Len(log)] = Ev("POST login", 0)
    /\ \A kind \in GameKinds : Count(kind) = 0

\* the state of the game session: 0 not started, 1 in progress, 2 completed,
\* 3 ended by a failure
Phase(p) ==
    CASE p \in {"new", "login_get", "login_post", "start_game"} -> 0
      [] p \in {"loop", "next", "image", "respond"} -> 1
      [] p \in {"save", "write", "done"} -> 2
      [] OTHER -> 3

\* C15: within a run the session only moves forward; the index i goes up by
\* steps of one and never beyond nb_questions; the session is completed
\* exactly when the loop head finds i = nb_questions, and otherwise leaves the
\* game only by a failing step; a failing step issues one request and no
\* request follows it, and a session that is completed or has failed issues
\* no request.
C15_Forward ==
    /\ [](i <= game.nb_questions)
    /\ [](Phase(pc) = 0 => i = 0)
    /\ [](Phase(pc) = 2 => i = game.nb_questions)
    /\ [](\A k \in 1..(Len(log) - 1) : log[k][1] # log[k + 1][1])
    /\ [][pc' \notin {"new", "killed"} =>
            (i' \in {i, i + 1} /\ Phase(pc') >= Phase(pc))]_vars
    /\ [][pc = "loop" =>
            /\ pc' \in {"next", "save"}
            /\ (pc' = "save") <=> (i = game.nb_questions)]_vars
    /\ [][(pc \in {"next", "image", "respond"}) => Phase(pc') \in {1, 3}]_vars
    /\ [][pc' = "aborted" => Len(log') <= Len(log) + 1]_vars
    /\ [][Phase(pc) >= 2 => \A kind \in HttpKinds : Count(kind)' <= Count(kind)]_vars
    /\ [][Phase(pc) = 3 => (pc' = "new" /\ log' = <<>>)]_vars

C15_Witness ==
    /\ pc = "done"
    /\ i = MaxQuestions
    /\ game.nb_questions = MaxQuestions
    /\ Count("POST guess") = MaxQuestions
    /\ log[Len(log)][1] = "write data"

\* the table Player::new makes of the file this run found
loaded == IF file0.exists /\ parses(file0.text) THEN from_str(file0.text) ELSE EmptyMap

\* Player::new has returned a player and the memory of the run is still there
Playing ==
    /\ Count("read data") = 1
    /\ pc # "killed"
    /\ pc = "aborted" => Len(log) > 1

\* C16: the store holds the entries it was loaded with plus one entry for each
\* fingerprint that was not stored when its question was answered, and no
\* step of a run removes an entry; scores has one element per answered
\* question. So a run that starts with an empty store, meets a fingerprint for
\* the first time at every question and plays its nb_questions questions ends
\* with nb_questions scores and nb_questions entries.
C16_StoreSize ==
    /\ [](Playing =>
            /\ Cardinality(DOMAIN hash_map) = Cardinality(DOMAIN loaded) + fresh
            /\ DOMAIN loaded \subseteq DOMAIN hash_map
            /\ fresh <= i
            /\ Len(scores) = i)
    /\ []((Phase(pc) = 2 /\ loaded = EmptyMap /\ fresh = i) =>
            /\ Len(scores) = game.nb_questions
            /\ Cardinality(DOMAIN hash_map) = game.nb_questions)
    /\ [][pc' \notin {"new", "killed"} => DOMAIN hash_map \subseteq DOMAIN hash_map']_vars
    /\ [][(pc = "respond" /\ pc' = "loop") =>
            /\ DOMAIN hash_map' = DOMAIN hash_map \cup {image_hash}
            /\ fresh' - fresh = Cardinality(DOMAIN hash_map') - Cardinality(DOMAIN hash_map)]_vars

C16_Witness ==
    /\ pc = "done"
    /\ ~file0.exists
    /\ game.nb_questions = 2
    /\ fresh = 2
    /\ Len(scores) = 2
    /\ Cardinality(DOMAIN hash_map) = 2
    /\ saved.map = hash_map

\* the names the response declares correct among the suggestions: the guessed
\* one when it says correct, the ones with its identifier otherwise
declared(r, form, suggestions) ==
    {suggestions[k].value : k \in
        {k \in DOMAIN suggestions :
            suggestions[k].id = IF r.is_correct THEN form.suggestionId
                                ELSE r.correct_suggestion_id}}

\* C17: the store starts as the loaded table, and every step of a run leaves
\* each entry as it was, except that a guess that returns gives the question's
\* fingerprint a name its response declared correct; the name of a guess
\* reported incorrect is not what that guess stores, unless the suggestion
\* declared correct bears the same name.
C17_Provenance ==
    /\ []((pc = "login_get" /\ log = <<Ev("read data", 0)>>) => hash_map = loaded)
    /\ [][(pc # "new" /\ pc' \notin {"new", "killed"}) =>
            \A f \in DOMAIN hash_map' :
               \/ f \in DOMAIN hash_map /\ hash_map'[f] = hash_map[f]
               \/ /\ pc = "respond"
                  /\ pc' = "loop"
                  /\ f = image_hash
                  /\ hash_map'[f] \in declared(response', guess_form', question.suggestions)]_vars
    /\ [][(pc = "respond" /\ pc' = "loop" /\ ~response'.is_correct) =>
            LET guessed == question.suggestions[chosen].value
            IN  guessed \notin declared(response', guess_form', question.suggestions)
                   => hash_map'[image_hash] # guessed]_vars

C17_Witness ==
    /\ Returned
    /\ ~response.is_correct
    /\ chosen = 1
    /\ i = 2
    /\ loaded # EmptyMap
    /\ hash_map[image_hash] \in declared(response, guess_form, question.suggestions)
    /\ hash_map[image_hash] # question.suggestions[chosen].value
    /\ \E f \in DOMAIN loaded : f # image_hash /\ hash_map[f] = loaded[f]

\* the events of one call of guess, in the order of the code
Cycle == <<"POST next", "GET image", "POST guess", "feedback">>

\* C18: the events of the calls of guess follow one another in the order next
\* question, image, guess, feedback, one of each per call; the suggestion is
\* looked up after the image has come and before the guess is sent; the store
\* changes only in the step in which guess returns, together with the score;
\* a call that fails leaves the store, the scores and the index as they were.
C18_Order ==
    /\ [](\A g \in 1..Len(log) : \A k \in (g + 1)..Len(log) :
            (log[g][1] = "POST games" /\ log[k][1] \notin {"create data", "write data"})
               => log[k][1] = Cycle[((k - g - 1) % 4) + 1])
    /\ [](pc = "image" =>
            /\ log[Len(log)][1] = "POST next"
            /\ question # NoQuestion
            /\ image_hash = 0 /\ chosen = 0 /\ guess_form = NoForm /\ response = NoResponse)
    /\ [](pc = "respond" =>
            /\ log[Len(log)][1] = "GET image"
            /\ chosen = select(hash_map, image_hash, question.suggestions)
            /\ chosen # 0
            /\ guess_form = NoForm /\ response = NoResponse)
    /\ [](Returned =>
            /\ log[Len(log)][1] = "feedback"
            /\ guess_form.suggestionId = question.suggestions[chosen].id
            /\ hash_map[image_hash] =
                  question.suggestions[correct_index(response, chosen,
                                                     question.suggestions)].value)
    /\ [][(pc \in {"next", "image", "respond"} /\ pc' = "aborted") =>
            (hash_map' = hash_map /\ scores' = scores /\ i' = i)]_vars
    /\ [][(Phase(pc) = 1 /\ pc' # "killed" /\ (hash_map' # hash_map \/ scores' # scores)) =>
            /\ pc = "respond"
            /\ pc' = "loop"
            /\ hash_map' = insert(hash_map, image_hash, hash_map'[image_hash])
            /\ scores' = Append(scores, response'.score)]_vars

C18_Witness ==
    /\ pc = "aborted"
    /\ i = 1
    /\ log[Len(log)][1] = "POST guess"
    /\ response = NoResponse
    /\ guess_form # NoForm
    /\ image_hash \notin DOMAIN hash_map
    /\ Len(scores) = 1

\* C19: a response that says incorrect and names none of the four suggestions
\* ends the run in the step that reads it, with the store, the scores and the
\* index as they were; a response that says correct makes guess return with
\* the name of the guessed suggestion stored, whatever identifier it names.
C19_Feedback ==
    /\ [][(pc = "respond" /\ response' # NoResponse) =>
            LET r == response'
                ids == {question.suggestions[k].id : k \in DOMAIN question.suggestions}
            IN  /\ (~r.is_correct /\ r.correct_suggestion_id \notin ids) =>
                      /\ pc' = "aborted"
                      /\ hash_map' = hash_map
                      /\ scores' = scores
                      /\ i' = i
                /\ r.is_correct =>
                      /\ pc' = "loop"
                      /\ guess_form'.suggestionId = question.suggestions[chosen].id
                      /\ hash_map'[image_hash] = question.suggestions[chosen].value]_vars
    /\ []((pc = "aborted" /\ response # NoResponse) =>
            /\ ~response.is_correct
            /\ \A k \in DOMAIN question.suggestions :
                  question.suggestions[k].id # response.correct_suggestion_id
            /\ log[Len(log)][1] = "POST guess")

C19_Witness ==
    /\ pc = "aborted"
    /\ response # NoResponse
    /\ ~response.is_correct
    /\ response.correct_suggestion_id = 15
    /\ image_hash \in DOMAIN hash_map
    /\ hash_map[image_hash] = question.suggestions[chosen].value
    /\ \E k \in DOMAIN question.suggestions :
          question.suggestions[k].value # hash_map[image_hash]

====
